---- MODULE Spec2Model ----
(***************************************************************************)
(* Retail billing: the invoice, void, return, product and customer        *)
(* handlers over the relational store (Prisma on SQLite).                  *)
(*                                                                         *)
(* Money is counted in cents, so that floor(totalAmount / 10) is           *)
(* totalAmount \div 1000.  Row ids are positions in the table sequences.   *)
(***************************************************************************)
EXTENDS Integers, Sequences, FiniteSets, TLC

VARIABLES
    stock,           \* Product.stock of every existing product
    customers,       \* existing customers: loyaltyPoints, totalPurchases
    invoices,        \* Invoice rows with their InvoiceItem rows
    returns,         \* ReturnOrder rows with their ReturnItem rows
    stockHistory,    \* StockHistory rows
    loyaltyHistory,  \* LoyaltyHistory rows
    activityLog,     \* ActivityLog rows
    session,         \* the role of the signed-in user, or NoSession
    resp,            \* the last HTTP response: handler and status
    reqs,            \* invoice-creation requests in flight (SpecConc)
    writer,          \* the request holding SQLite's write lock (SpecConc)
    memItems,        \* the ids in the in-memory items array of /api/items
    clock,           \* the server's date, in days
    billing          \* the state of the BillingInterface component

tables == <<stock, customers, invoices, returns, stockHistory, loyaltyHistory,
            activityLog>>
vars == <<stock, customers, invoices, returns, stockHistory, loyaltyHistory,
          activityLog, session, resp, reqs, writer, memItems, clock,
          billing>>

(***************************************************************************)
(* Bounds and input sets                                                   *)
(***************************************************************************)
MaxLog == 6          \* committed operations, the three seeding ones included
MaxInventoryLog == 4 \* committed operations of the stock room
MaxItems == 3        \* items in the in-memory array
MaxDoorLog == 5      \* committed operations at the front door, seeding included
MaxTillLog == 5      \* committed operations at the till, seeding included

ProductIds == {"p1", "p2"}
UnknownProduct == "p9"
CustomerIds == {"c1", "c2"}
NoCustomer == "null"
NoSession == "NONE"
Roles == {"CASHIER", "MANAGER", "ADMIN"}
Sessions == Roles \cup {NoSession}
NoInvoice == 0

Line(p, q) == [productId |-> p, quantity |-> q]

\* item lists a client submits to POST /invoices
InvoiceItemLists ==
    { <<Line("p1", 2)>>,
      <<Line("p1", 1), Line("p1", 1)>>,
      <<Line("p1", 1), Line("p2", 1)>>,
      <<Line("p1", 1), Line(UnknownProduct, 1)>> }

\* item lists a client submits to POST /returns
ReturnItemLists ==
    { <<Line("p1", 1)>>,
      <<Line("p1", 2)>>,
      <<Line("p1", 1), Line("p2", 1)>> }

Amounts == {500, 2500}    \* 5.00 earns no point, 25.00 earns 2
StockInputs == {0, 3}
PointInputs == {0, 6}
Undefined == -1                        \* a field absent from the JSON body

(***************************************************************************)
(* The store as a value, so that a transaction body is a function of it    *)
(***************************************************************************)
Store ==
    [stock |-> stock, customers |-> customers, invoices |-> invoices,
     returns |-> returns, stockHistory |-> stockHistory,
     loyaltyHistory |-> loyaltyHistory, activityLog |-> activityLog]

EmptyStore ==
    [stock |-> << >>, customers |-> << >>, invoices |-> << >>,
     returns |-> << >>, stockHistory |-> << >>, loyaltyHistory |-> << >>,
     activityLog |-> << >>]

Commit(s) ==
    /\ stock' = s.stock
    /\ customers' = s.customers
    /\ invoices' = s.invoices
    /\ returns' = s.returns
    /\ stockHistory' = s.stockHistory
    /\ loyaltyHistory' = s.loyaltyHistory
    /\ activityLog' = s.activityLog

Ok(s) == [ok |-> TRUE, s |-> s]
Fail(s) == [ok |-> FALSE, s |-> s]

\* prisma.$transaction: the body's writes are kept when it returns and
\* discarded when it throws
Transaction_NoRollback(before, r) == r.s
Transaction(before, r) == IF r.ok THEN r.s ELSE before

\* Math.floor(totalAmount / 10), totalAmount in cents
Points_Rounded(totalAmount) == (totalAmount + 500) \div 1000
Points(totalAmount) == totalAmount \div 1000

\* authOptions role helpers: ADMIN > MANAGER > CASHIER
RoleRank(role) ==
    CASE role = "ADMIN" -> 3
      [] role = "MANAGER" -> 2
      [] role = "CASHIER" -> 1
      [] OTHER -> 0
isCashier(role) == RoleRank(role) >= 1
isManager(role) == RoleRank(role) >= 2
isAdmin(role) == RoleRank(role) >= 3

Response(op, status) == [op |-> op, status |-> status]

LogEntry(action) == [userId |-> session, action |-> action]
StockEntry(p, q, type, inv) ==
    [productId |-> p, quantity |-> q, type |-> type, invoiceId |-> inv]
LoyaltyEntry(c, pts) == [customerId |-> c, points |-> pts]

(***************************************************************************)
(* POST /invoices                                                          *)
(***************************************************************************)
\* The random INV-YYYYMMDD-XXXX draw.  Numbers are opaque, so the k-th
\* distinct number drawn is written k: a draw repeats a number in use (the
\* first invoice's, when there is one) or is the next fresh one.
InvoiceNumberDraws == {1, Len(invoices) + 1}

\* with a customer, both amounts; without one or with an unknown one, one
InvoiceRequests ==
    [customerId : {"c1"}, items : InvoiceItemLists, totalAmount : Amounts]
    \cup [customerId : {NoCustomer, "c2"}, items : InvoiceItemLists,
          totalAmount : {2500}]

\* nested items.create: one InvoiceItem row per line, each with a foreign
\* key to Product
RECURSIVE InsertItems(_, _, _)
InsertItems(s, items, k) ==
    IF k > Len(items) THEN Ok(s)
    ELSE IF items[k].productId \notin DOMAIN s.stock THEN Fail(s)
    ELSE LET id == Len(s.invoices)
             row == [s.invoices[id] EXCEPT !.items = Append(@, items[k])]
         IN  InsertItems([s EXCEPT !.invoices[id] = row], items, k + 1)

\* tx.invoice.create: the Invoice row (invoiceNumber @unique, customerId a
\* foreign key), then its items
\* JavaScript truthiness of a numeric body field: absent and 0 are falsy
Truthy(v) == v # Undefined /\ v # 0

\* parseFloat(data.taxAmount), and data.discountAmount ? parseFloat(...) : 0,
\* of a request that states them
TaxOf(data) == IF "taxAmount" \in DOMAIN data THEN data.taxAmount ELSE 0
DiscountOf(data) ==
    IF "discountAmount" \in DOMAIN data /\ Truthy(data.discountAmount)
    THEN data.discountAmount ELSE 0

\* data.paymentMethod of a request that states it; the others pay in cash
PaymentOf(data) ==
    IF "paymentMethod" \in DOMAIN data THEN data.paymentMethod ELSE "CASH"

InvoiceCreate_NoUniqueIndex(s, data, invoiceNumber) ==
    IF data.customerId # NoCustomer /\ data.customerId \notin DOMAIN s.customers
    THEN Fail(s)
    ELSE LET row == [invoiceNumber |-> invoiceNumber,
                     customerId |-> data.customerId,
                     taxAmount |-> TaxOf(data),
                     discountAmount |-> DiscountOf(data),
                     totalAmount |-> data.totalAmount,
                     paymentMethod |-> PaymentOf(data),
                     status |-> "PAID",
                     createdAt |-> clock,
                     items |-> << >>]
         IN  InsertItems([s EXCEPT !.invoices = Append(@, row)], data.items, 1)
InvoiceCreate(s, data, invoiceNumber) ==
    IF \E i \in 1 .. Len(s.invoices) : s.invoices[i].invoiceNumber = invoiceNumber
    THEN Fail(s)
    ELSE IF data.customerId # NoCustomer /\ data.customerId \notin DOMAIN s.customers
    THEN Fail(s)
    ELSE LET row == [invoiceNumber |-> invoiceNumber,
                     customerId |-> data.customerId,
                     taxAmount |-> TaxOf(data),
                     discountAmount |-> DiscountOf(data),
                     totalAmount |-> data.totalAmount,
                     paymentMethod |-> PaymentOf(data),
                     status |-> "PAID",
                     createdAt |-> clock,
                     items |-> << >>]
         IN  InsertItems([s EXCEPT !.invoices = Append(@, row)], data.items, 1)

\* one pass of the stock loop: find the product, decrement, write the ledger
SaleLine_DecrementOne(s, item, invoiceId) ==
    IF item.productId \notin DOMAIN s.stock THEN Fail(s)
    ELSE Ok([s EXCEPT
               !.stock[item.productId] = @ - 1,
               !.stockHistory =
                   Append(@, StockEntry(item.productId, item.quantity, "sale", invoiceId))])
SaleLine(s, item, invoiceId) ==
    IF item.productId \notin DOMAIN s.stock THEN Fail(s)
    ELSE Ok([s EXCEPT
               !.stock[item.productId] = @ - item.quantity,
               !.stockHistory =
                   Append(@, StockEntry(item.productId, item.quantity, "sale", invoiceId))])

RECURSIVE SaleLines(_, _, _, _)
SaleLines(s, items, k, invoiceId) ==
    IF k > Len(items) THEN Ok(s)
    ELSE LET r == SaleLine(s, items[k], invoiceId)
         IN  IF r.ok THEN SaleLines(r.s, items, k + 1, invoiceId) ELSE r

\* the customer's running totals and the loyalty ledger
AccruePoints(s, data) ==
    IF data.customerId = NoCustomer \/ data.customerId \notin DOMAIN s.customers
    THEN s
    ELSE LET pointsEarned == Points(data.totalAmount)
             c == data.customerId
             upd == [s EXCEPT
                       !.customers[c].totalPurchases = @ + data.totalAmount,
                       !.customers[c].loyaltyPoints = @ + pointsEarned]
         IN  IF pointsEarned > 0
             THEN [upd EXCEPT !.loyaltyHistory = Append(@, LoyaltyEntry(c, pointsEarned))]
             ELSE upd

WriteLog(s, action) == [s EXCEPT !.activityLog = Append(@, LogEntry(action))]

\* the body of the transaction
CreateInvoiceBody(s, data, invoiceNumber) ==
    LET r1 == InvoiceCreate(s, data, invoiceNumber)
    IN  IF ~r1.ok THEN r1
        ELSE LET r2 == SaleLines(r1.s, data.items, 1, Len(r1.s.invoices))
             IN  IF ~r2.ok THEN r2
                 ELSE Ok(WriteLog(AccruePoints(r2.s, data), "CREATE_INVOICE"))

\* Array.isArray: the keys of the JSON value are 1 .. n
IsArray(v) == DOMAIN v = 1 .. Cardinality(DOMAIN v)

\* data.items is there, is a list and is not empty
ItemsGiven_AllowEmpty(data) == "items" \in DOMAIN data /\ IsArray(data.items)
ItemsGiven(data) ==
    /\ "items" \in DOMAIN data
    /\ IsArray(data.items)
    /\ Len(data.items) # 0

CreateInvoice(data, invoiceNumber) ==
    /\ Len(activityLog) < MaxLog
    /\ IF ~isCashier(session)
       THEN /\ resp' = Response("createInvoice", 403)
            /\ UNCHANGED tables
       ELSE IF ~ItemsGiven(data)
       THEN /\ resp' = Response("createInvoice", 400)
            /\ UNCHANGED tables
       ELSE LET r == CreateInvoiceBody(Store, data, invoiceNumber)
            IN  /\ Commit(Transaction(Store, r))
                /\ resp' = Response("createInvoice", IF r.ok THEN 201 ELSE 500)
    /\ UNCHANGED <<session, memItems, reqs, writer, clock, billing>>

(***************************************************************************)
(* DELETE /invoices/{id}: void                                             *)
(***************************************************************************)
InvoiceIdInputs == 0 .. (Len(invoices) + 1)   \* 0: none given; the last: unknown

Exists(id) == id \in 1 .. Len(invoices)

\* prisma.returnOrder.findFirst({ where: { invoiceId } })
hasReturns(id) == \E k \in 1 .. Len(returns) : returns[k].invoiceId = id

\* one pass of the restore loop
RestoreLine_IncrementOne(s, item, invoiceId) ==
    IF item.productId \notin DOMAIN s.stock THEN Fail(s)
    ELSE Ok([s EXCEPT
               !.stock[item.productId] = @ + 1,
               !.stockHistory =
                   Append(@, StockEntry(item.productId, item.quantity, "adjustment", invoiceId))])
RestoreLine(s, item, invoiceId) ==
    IF item.productId \notin DOMAIN s.stock THEN Fail(s)
    ELSE Ok([s EXCEPT
               !.stock[item.productId] = @ + item.quantity,
               !.stockHistory =
                   Append(@, StockEntry(item.productId, item.quantity, "adjustment", invoiceId))])

RECURSIVE RestoreLines(_, _, _, _)
RestoreLines(s, items, k, invoiceId) ==
    IF k > Len(items) THEN Ok(s)
    ELSE LET r == RestoreLine(s, items[k], invoiceId)
         IN  IF r.ok THEN RestoreLines(r.s, items, k + 1, invoiceId) ELSE r

\* the customer's totals and ledger on a void
RevertPoints(s, existingInvoice) ==
    LET c == existingInvoice.customerId
        pointsEarned == Points(existingInvoice.totalAmount)
    IN  IF c = NoCustomer \/ pointsEarned <= 0 THEN Ok(s)
        ELSE IF c \notin DOMAIN s.customers THEN Fail(s)
        ELSE Ok([s EXCEPT
                   !.customers[c].totalPurchases = @ - existingInvoice.totalAmount,
                   !.customers[c].loyaltyPoints = @ - pointsEarned,
                   !.loyaltyHistory = Append(@, LoyaltyEntry(c, -pointsEarned))])

\* the body of the transaction, working from the invoice as read before it
VoidInvoiceBody(s, existingInvoice, invoiceId) ==
    LET r1 == RestoreLines(s, existingInvoice.items, 1, invoiceId)
    IN  IF ~r1.ok THEN r1
        ELSE LET voided == [r1.s EXCEPT !.invoices[invoiceId].status = "VOIDED"]
                 r3 == RevertPoints(voided, existingInvoice)
             IN  IF ~r3.ok THEN r3
                 ELSE Ok(WriteLog(r3.s, "VOID_INVOICE"))

VoidInvoice(invoiceId) ==
    /\ Len(activityLog) < MaxLog
    /\ IF ~isAdmin(session)
       THEN /\ resp' = Response("voidInvoice", 403)
            /\ UNCHANGED tables
       ELSE IF ~Exists(invoiceId)
       THEN /\ resp' = Response("voidInvoice", 404)
            /\ UNCHANGED tables
       ELSE IF invoices[invoiceId].status = "VOIDED"
       THEN /\ resp' = Response("voidInvoice", 400)
            /\ UNCHANGED tables
       ELSE IF hasReturns(invoiceId)
       THEN /\ resp' = Response("voidInvoice", 400)
            /\ UNCHANGED tables
       ELSE LET r == VoidInvoiceBody(Store, invoices[invoiceId], invoiceId)
            IN  /\ Commit(Transaction(Store, r))
                /\ resp' = Response("voidInvoice", IF r.ok THEN 200 ELSE 500)
    /\ UNCHANGED <<session, memItems, reqs, writer, clock, billing>>

(***************************************************************************)
(* PUT /invoices/{id}                                                      *)
(***************************************************************************)
\* data.status as the request gives it; the handler writes it as it comes
StatusInputs == {"PAID", "VOIDED"}

\* prisma.invoice.update then prisma.activityLog.create, whatever the
\* invoice's status was
UpdateInvoiceIn(s, invoiceId, status) ==
    WriteLog([s EXCEPT !.invoices[invoiceId].status = status], "UPDATE_INVOICE")

UpdateInvoice(invoiceId, status) ==
    /\ Len(activityLog) < MaxLog
    /\ IF ~isAdmin(session)
       THEN /\ resp' = Response("updateInvoice", 403)
            /\ UNCHANGED tables
       ELSE IF ~Exists(invoiceId)
       THEN /\ resp' = Response("updateInvoice", 404)
            /\ UNCHANGED tables
       ELSE /\ Commit(UpdateInvoiceIn(Store, invoiceId, status))
            /\ resp' = Response("updateInvoice", 200)
    /\ UNCHANGED <<session, memItems, reqs, writer, clock, billing>>

(***************************************************************************)
(* POST /returns                                                           *)
(***************************************************************************)
\* a completed return of either amount, a pending one of one amount
ReturnRequests ==
    [invoiceId : InvoiceIdInputs, items : ReturnItemLists,
     totalAmount : Amounts, status : {"COMPLETED"}]
    \cup [invoiceId : InvoiceIdInputs, items : ReturnItemLists,
          totalAmount : {2500}, status : {"PENDING"}]

\* invoice.items.find(i => i.productId === productId): the first match
HasItem(items, productId) ==
    \E k \in 1 .. Len(items) : items[k].productId = productId
FindItem(items, productId) ==
    items[CHOOSE k \in 1 .. Len(items) :
            /\ items[k].productId = productId
            /\ \A j \in 1 .. (k - 1) : items[j].productId # productId]

\* the validation loop: every returned line is on the invoice and within
\* the quantity of its invoice line
ValidReturnItems_ProductOnly(invoice, items) ==
    \A k \in 1 .. Len(items) : HasItem(invoice.items, items[k].productId)
ValidReturnItems(invoice, items) ==
    \A k \in 1 .. Len(items) :
        /\ HasItem(invoice.items, items[k].productId)
        /\ items[k].quantity <= FindItem(invoice.items, items[k].productId).quantity

ReturnLine_IncrementOne(s, item, invoiceId) ==
    IF item.productId \notin DOMAIN s.stock THEN Fail(s)
    ELSE Ok([s EXCEPT
               !.stock[item.productId] = @ + 1,
               !.stockHistory =
                   Append(@, StockEntry(item.productId, item.quantity, "return", invoiceId))])
ReturnLine(s, item, invoiceId) ==
    IF item.productId \notin DOMAIN s.stock THEN Fail(s)
    ELSE Ok([s EXCEPT
               !.stock[item.productId] = @ + item.quantity,
               !.stockHistory =
                   Append(@, StockEntry(item.productId, item.quantity, "return", invoiceId))])

RECURSIVE ReturnLines(_, _, _, _)
ReturnLines(s, items, k, invoiceId) ==
    IF k > Len(items) THEN Ok(s)
    ELSE LET r == ReturnLine(s, items[k], invoiceId)
         IN  IF r.ok THEN ReturnLines(r.s, items, k + 1, invoiceId) ELSE r

allItemsReturned(invoice, items) ==
    \A k \in 1 .. Len(invoice.items) :
        /\ HasItem(items, invoice.items[k].productId)
        /\ FindItem(items, invoice.items[k].productId).quantity
              >= invoice.items[k].quantity

DeductPoints(s, invoice, data) ==
    LET c == invoice.customerId
        pointsToDeduct == Points(data.totalAmount)
    IN  IF c = NoCustomer \/ pointsToDeduct <= 0 THEN Ok(s)
        ELSE IF c \notin DOMAIN s.customers THEN Fail(s)
        ELSE Ok([s EXCEPT
                   !.customers[c].totalPurchases = @ - data.totalAmount,
                   !.customers[c].loyaltyPoints = @ - pointsToDeduct,
                   !.loyaltyHistory = Append(@, LoyaltyEntry(c, -pointsToDeduct))])

\* the body of the transaction, working from the invoice as read before it
CreateReturnBody(s, invoice, data) ==
    LET row == [invoiceId |-> data.invoiceId, totalAmount |-> data.totalAmount,
                status |-> data.status, items |-> data.items]
        made == [s EXCEPT !.returns = Append(@, row)]
    IN  IF data.status # "COMPLETED" THEN Ok(WriteLog(made, "CREATE_RETURN"))
        ELSE LET r2 == ReturnLines(made, data.items, 1, data.invoiceId)
             IN  IF ~r2.ok THEN r2
                 ELSE LET refunded ==
                              IF allItemsReturned(invoice, data.items)
                              THEN [r2.s EXCEPT !.invoices[data.invoiceId].status = "REFUNDED"]
                              ELSE r2.s
                          r4 == DeductPoints(refunded, invoice, data)
                      IN  IF ~r4.ok THEN r4
                          ELSE Ok(WriteLog(r4.s, "CREATE_RETURN"))

CreateReturn(data) ==
    /\ Len(activityLog) < MaxLog
    /\ IF ~isManager(session)
       THEN /\ resp' = Response("createReturn", 403)
            /\ UNCHANGED tables
       ELSE IF data.invoiceId = NoInvoice \/ Len(data.items) = 0
       THEN /\ resp' = Response("createReturn", 400)
            /\ UNCHANGED tables
       ELSE IF ~Exists(data.invoiceId)
       THEN /\ resp' = Response("createReturn", 404)
            /\ UNCHANGED tables
       ELSE IF ~ValidReturnItems(invoices[data.invoiceId], data.items)
       THEN /\ resp' = Response("createReturn", 400)
            /\ UNCHANGED tables
       ELSE LET r == CreateReturnBody(Store, invoices[data.invoiceId], data)
            IN  /\ Commit(Transaction(Store, r))
                /\ resp' = Response("createReturn", IF r.ok THEN 201 ELSE 500)
    /\ UNCHANGED <<session, memItems, reqs, writer, clock, billing>>

(***************************************************************************)
(* PUT /products/{id}, POST /products                                      *)
(***************************************************************************)
Abs(n) == IF n < 0 THEN -n ELSE n

UpdateProductIn(s, p, newStock) ==
    LET stockChange == IF newStock # Undefined THEN newStock - s.stock[p] ELSE 0
        hist == IF stockChange # 0
                THEN [s EXCEPT !.stockHistory =
                         Append(@, StockEntry(p, Abs(stockChange),
                                    IF stockChange > 0 THEN "purchase" ELSE "adjustment",
                                    NoInvoice))]
                ELSE s
        upd == IF Truthy(newStock) THEN [hist EXCEPT !.stock[p] = newStock] ELSE hist
    IN  WriteLog(upd, "UPDATE_PRODUCT")

UpdateProduct(p, newStock) ==
    /\ Len(activityLog) < MaxLog
    /\ IF ~isManager(session)
       THEN /\ resp' = Response("updateProduct", 403)
            /\ UNCHANGED tables
       ELSE IF p \notin DOMAIN stock
       THEN /\ resp' = Response("updateProduct", 404)
            /\ UNCHANGED tables
       ELSE /\ Commit(UpdateProductIn(Store, p, newStock))
            /\ resp' = Response("updateProduct", 200)
    /\ UNCHANGED <<session, memItems, reqs, writer, clock, billing>>

CreateProductIn(s, p, initial, user) ==
    LET made == [s EXCEPT !.stock = [q \in DOMAIN s.stock \cup {p} |->
                     IF q = p THEN (IF Truthy(initial) THEN initial ELSE 0)
                     ELSE s.stock[q]]]
        hist == IF Truthy(initial) /\ initial > 0
                THEN [made EXCEPT !.stockHistory =
                         Append(@, StockEntry(p, initial, "purchase", NoInvoice))]
                ELSE made
    IN  [hist EXCEPT !.activityLog =
            Append(@, [userId |-> user, action |-> "CREATE_PRODUCT"])]

\* the new row's uuid: any id not in use
CreateProduct(p, initial) ==
    /\ Len(activityLog) < MaxLog
    /\ p \notin DOMAIN stock
    /\ IF ~isManager(session)
       THEN /\ resp' = Response("createProduct", 403)
            /\ UNCHANGED tables
       ELSE /\ Commit(CreateProductIn(Store, p, initial, session))
            /\ resp' = Response("createProduct", 201)
    /\ UNCHANGED <<session, memItems, reqs, writer, clock, billing>>

(***************************************************************************)
(* DELETE /products/{id}                                                   *)
(***************************************************************************)
\* prisma.invoiceItem.findFirst({ where: { productId } })
UsedInInvoices(p) ==
    \E i \in 1 .. Len(invoices) :
        \E k \in 1 .. Len(invoices[i].items) : invoices[i].items[k].productId = p

\* prisma.product.delete, which takes the product's StockHistory rows with
\* it (onDelete: Cascade), then prisma.activityLog.create
DeleteProductIn(s, p) ==
    WriteLog([s EXCEPT
                !.stock = [q \in DOMAIN s.stock \ {p} |-> s.stock[q]],
                !.stockHistory = SelectSeq(@, LAMBDA e : e.productId # p)],
             "DELETE_PRODUCT")

DeleteProduct(p) ==
    /\ Len(activityLog) < MaxLog
    /\ IF ~isAdmin(session)
       THEN /\ resp' = Response("deleteProduct", 403)
            /\ UNCHANGED tables
       ELSE IF p \notin DOMAIN stock
       THEN /\ resp' = Response("deleteProduct", 404)
            /\ UNCHANGED tables
       ELSE IF UsedInInvoices(p)
       THEN /\ resp' = Response("deleteProduct", 400)
            /\ UNCHANGED tables
       ELSE /\ Commit(DeleteProductIn(Store, p))
            /\ resp' = Response("deleteProduct", 200)
    /\ UNCHANGED <<session, memItems, reqs, writer, clock, billing>>

(***************************************************************************)
(* PATCH /products                                                         *)
(***************************************************************************)
PatchItem(p, n) == [id |-> p, stock |-> n]

\* data.products as a client submits it
PatchLists ==
    { <<PatchItem("p1", 3)>>,
      <<PatchItem("p1", 0), PatchItem(UnknownProduct, 3)>>,
      <<PatchItem("p1", 2), PatchItem("p2", 2)>> }

\* one prisma.product.update of the bulk update; a failed one is caught and
\* reported in the results, the others go on
PatchOne(s, item) ==
    IF item.id \notin DOMAIN s.stock THEN s
    ELSE IF Truthy(item.stock) THEN [s EXCEPT !.stock[item.id] = item.stock]
    ELSE s

RECURSIVE PatchAll(_, _)
PatchAll(s, items) ==
    IF items = << >> THEN s
    ELSE PatchAll(PatchOne(s, Head(items)), Tail(items))

PatchProducts(items) ==
    /\ IF ~isManager(session)
       THEN /\ resp' = Response("patchProducts", 403)
            /\ UNCHANGED tables
       ELSE /\ Commit(PatchAll(Store, items))
            /\ resp' = Response("patchProducts", 200)
    /\ UNCHANGED <<session, memItems, reqs, writer, clock, billing>>

(***************************************************************************)
(* POST /customers, PUT /customers/{id}                                    *)
(***************************************************************************)
CreateCustomerIn(s, c, loyaltyPoints, user) ==
    LET made == [s EXCEPT !.customers = [d \in DOMAIN s.customers \cup {c} |->
                     IF d = c
                     THEN [loyaltyPoints |->
                               IF Truthy(loyaltyPoints) THEN loyaltyPoints ELSE 0,
                           totalPurchases |-> 0]
                     ELSE s.customers[d]]]
        hist == IF Truthy(loyaltyPoints) /\ loyaltyPoints > 0
                THEN [made EXCEPT !.loyaltyHistory =
                         Append(@, LoyaltyEntry(c, loyaltyPoints))]
                ELSE made
    IN  [hist EXCEPT !.activityLog =
            Append(@, [userId |-> user, action |-> "CREATE_CUSTOMER"])]

\* the new row's uuid: any id not in use
CreateCustomer(c, loyaltyPoints) ==
    /\ Len(activityLog) < MaxLog
    /\ c \notin DOMAIN customers
    /\ IF ~isCashier(session)
       THEN /\ resp' = Response("createCustomer", 403)
            /\ UNCHANGED tables
       ELSE /\ Commit(CreateCustomerIn(Store, c, loyaltyPoints, session))
            /\ resp' = Response("createCustomer", 201)
    /\ UNCHANGED <<session, memItems, reqs, writer, clock, billing>>

UpdateCustomerIn(s, c, loyaltyPoints) ==
    LET pointsDifference ==
            IF loyaltyPoints # Undefined
            THEN loyaltyPoints - s.customers[c].loyaltyPoints ELSE 0
        upd == IF Truthy(loyaltyPoints)
               THEN [s EXCEPT !.customers[c].loyaltyPoints = loyaltyPoints]
               ELSE s
        hist == IF pointsDifference # 0
                THEN [upd EXCEPT !.loyaltyHistory =
                         Append(@, LoyaltyEntry(c, pointsDifference))]
                ELSE upd
    IN  WriteLog(hist, "UPDATE_CUSTOMER")

UpdateCustomer(c, loyaltyPoints) ==
    /\ Len(activityLog) < MaxLog
    /\ IF ~isCashier(session)
       THEN /\ resp' = Response("updateCustomer", 403)
            /\ UNCHANGED tables
       ELSE IF c \notin DOMAIN customers
       THEN /\ resp' = Response("updateCustomer", 404)
            /\ UNCHANGED tables
       ELSE /\ Commit(UpdateCustomerIn(Store, c, loyaltyPoints))
            /\ resp' = Response("updateCustomer", 200)
    /\ UNCHANGED <<session, memItems, reqs, writer, clock, billing>>

(***************************************************************************)
(* DELETE /customers/{id}                                                  *)
(***************************************************************************)
\* prisma.invoice.findFirst({ where: { customerId } })
hasInvoices(c) == \E i \in 1 .. Len(invoices) : invoices[i].customerId = c

\* prisma.customer.delete, which takes the customer's LoyaltyHistory rows
\* with it (onDelete: Cascade), then prisma.activityLog.create
DeleteCustomerIn(s, c) ==
    WriteLog([s EXCEPT
                !.customers = [d \in DOMAIN s.customers \ {c} |-> s.customers[d]],
                !.loyaltyHistory = SelectSeq(@, LAMBDA e : e.customerId # c)],
             "DELETE_CUSTOMER")

DeleteCustomer(c) ==
    /\ Len(activityLog) < MaxLog
    /\ IF ~isAdmin(session)
       THEN /\ resp' = Response("deleteCustomer", 403)
            /\ UNCHANGED tables
       ELSE IF c \notin DOMAIN customers
       THEN /\ resp' = Response("deleteCustomer", 404)
            /\ UNCHANGED tables
       ELSE IF hasInvoices(c)
       THEN /\ resp' = Response("deleteCustomer", 400)
            /\ UNCHANGED tables
       ELSE /\ Commit(DeleteCustomerIn(Store, c))
            /\ resp' = Response("deleteCustomer", 200)
    /\ UNCHANGED <<session, memItems, reqs, writer, clock, billing>>

(***************************************************************************)
(* POST /api/items, DELETE /api/items                                      *)
(*                                                                         *)
(* The items array lives in the server's memory; an item is written by its *)
(* id.  Neither handler reads the session.                                 *)
(***************************************************************************)
SeedItems == <<1, 2>>
NoId == 0                  \* no id in the body or the query string

\* Date.now(): an id above those in use
FreshItemId ==
    1 + (CHOOSE m \in {0} \cup {memItems[k] : k \in 1 .. Len(memItems)} :
            \A k \in 1 .. Len(memItems) : memItems[k] <= m)

PostItem(id) ==
    /\ Len(memItems) < MaxItems
    /\ memItems' = Append(memItems, IF id = NoId THEN FreshItemId ELSE id)
    /\ resp' = Response("postItem", 201)
    /\ UNCHANGED <<tables, session, reqs, writer, clock, billing>>

DeleteItem(id) ==
    /\ IF id = NoId
       THEN /\ resp' = Response("deleteItem", 400)
            /\ UNCHANGED memItems
       ELSE /\ memItems' = SelectSeq(memItems, LAMBDA i : i # id)
            /\ resp' = Response("deleteItem", 200)
    /\ UNCHANGED <<tables, session, reqs, writer, clock, billing>>

(***************************************************************************)
(* The billing page (BillingInterface)                                     *)
(*                                                                         *)
(* The component keeps the fetched items with their available quantity,    *)
(* the cart, and the error it shows.                                       *)
(***************************************************************************)
MaxShelf == 3        \* the largest quantity of a fetched item

NoError == "null"
Unmounted == [items |-> << >>, cart |-> << >>, error |-> NoError]

\* the quantities GET /api/items can hold for the ids of the array
Shelves == [{memItems[k] : k \in 1 .. Len(memItems)} -> 0 .. MaxShelf]

\* the page loads: useEffect fetches /api/items into the component
fetchItems(data) ==
    /\ billing' = [items |-> data, cart |-> << >>, error |-> NoError]
    /\ UNCHANGED <<tables, session, resp, reqs, writer, memItems, clock>>

\* currentQty >= stockItem.quantity, for an item already in the cart
CartFull(b, id) == id \in DOMAIN b.cart /\ b.cart[id] >= b.items[id]

addToCartIn(b, id) ==
    IF id \notin DOMAIN b.items \/ b.items[id] <= 0
    THEN [b EXCEPT !.error = "Item out of stock"]
    ELSE IF CartFull(b, id)
    THEN [b EXCEPT !.error = "Cannot add more, not enough stock"]
    ELSE [items |-> [b.items EXCEPT ![id] = @ - 1],
          cart |-> (id :> (IF id \in DOMAIN b.cart THEN b.cart[id] + 1 ELSE 1))
                       @@ b.cart,
          error |-> NoError]

addToCart(id) ==
    /\ id \in DOMAIN billing.items
    /\ billing' = addToCartIn(billing, id)
    /\ UNCHANGED <<tables, session, resp, reqs, writer, memItems, clock>>

removeFromCartIn(b, itemId) ==
    IF itemId \notin DOMAIN b.cart THEN b
    ELSE [b EXCEPT
            !.cart = IF b.cart[itemId] > 1
                     THEN [b.cart EXCEPT ![itemId] = @ - 1]
                     ELSE [id \in DOMAIN b.cart \ {itemId} |-> b.cart[id]],
            !.items = [id \in DOMAIN b.items |->
                         IF id = itemId THEN b.items[id] + 1 ELSE b.items[id]]]

removeFromCart(itemId) ==
    /\ itemId \in DOMAIN billing.cart
    /\ billing' = removeFromCartIn(billing, itemId)
    /\ UNCHANGED <<tables, session, resp, reqs, writer, memItems, clock>>

(***************************************************************************)
(* The server's date                                                       *)
(***************************************************************************)
MaxClock == 2        \* the last day of the run
DaysPerMonth == 2    \* days in a month of the run's calendar

Dates == 0 .. MaxClock

\* a day passes on the server
Tick ==
    /\ clock < MaxClock
    /\ clock' = clock + 1
    /\ UNCHANGED <<tables, session, resp, reqs, writer, memItems, billing>>

(***************************************************************************)
(* GET /api/reports and GET /api/reports/customers                         *)
(*                                                                         *)
(* A quotient a / b is kept exact as the pair of its numerator and its     *)
(* denominator; a pair whose denominator is 0 is what JavaScript makes     *)
(* NaN (0 / 0) or Infinity (n / 0), and JSON makes null.                   *)
(***************************************************************************)
Divide(a, b) == [num |-> a, den |-> b]
Zero == Divide(0, 1)
Finite(q) == q.den # 0
IsZero(q) == q.num = 0 /\ q.den # 0

ReportResponse(op, body) == [op |-> op, status |-> 200, body |-> body]

Windows == {w \in Dates \X Dates : w[1] <= w[2]}
Periods == {"day", "month"}

\* the key of the bucket of a date: year-month, or year-month-day
formatDateByPeriod(date, period) ==
    IF period = "month"
    THEN <<date \div DaysPerMonth>>
    ELSE <<date \div DaysPerMonth, date % DaysPerMonth>>

\* where: createdAt within [startDate, endDate], status not VOIDED
InPeriod_WithVoided(invoice, startDate, endDate) ==
    /\ invoice.createdAt >= startDate
    /\ invoice.createdAt <= endDate
InPeriod(invoice, startDate, endDate) ==
    /\ invoice.createdAt >= startDate
    /\ invoice.createdAt <= endDate
    /\ invoice.status # "VOIDED"

FindInvoices(table, startDate, endDate) ==
    SelectSeq(table, LAMBDA invoice : InPeriod(invoice, startDate, endDate))
SalesRows(startDate, endDate) == FindInvoices(invoices, startDate, endDate)

\* the loop over the rows: each adds its totalAmount to the entry of its key
RECURSIVE GroupSales(_, _, _)
GroupSales(rows, k, acc) ==
    IF k > Len(rows) THEN acc
    ELSE LET key == rows[k].key
             prev == IF key \in DOMAIN acc THEN acc[key]
                     ELSE [total |-> 0, count |-> 0]
             entry == [total |-> prev.total + rows[k].totalAmount,
                       count |-> prev.count + 1]
         IN  GroupSales(rows, k + 1, (key :> entry) @@ acc)

\* result.reduce((sum, item) => sum + item.<field>, 0)
RECURSIVE Reduce(_, _)
Reduce(data, field) ==
    IF DOMAIN data = {} THEN 0
    ELSE LET key == CHOOSE key \in DOMAIN data : TRUE
             rest == [other \in DOMAIN data \ {key} |-> data[other]]
         IN  data[key][field] + Reduce(rest, field)

SalesByTimePeriod(table, period, startDate, endDate) ==
    LET found == FindInvoices(table, startDate, endDate)
        rows == [k \in 1 .. Len(found) |->
                   [key |-> formatDateByPeriod(found[k].createdAt, period),
                    totalAmount |-> found[k].totalAmount]]
        sales == GroupSales(rows, 1, << >>)
        result == [key \in DOMAIN sales |->
                     [total |-> sales[key].total,
                      count |-> sales[key].count,
                      average |-> Divide(sales[key].total, sales[key].count)]]
        totalSales == Reduce(result, "total")
        totalInvoices == Reduce(result, "count")
    IN  [data |-> result,
         summary |-> [totalSales |-> totalSales,
                      totalInvoices |-> totalInvoices,
                      averageSale |-> IF totalInvoices # 0 /\ totalSales # 0
                                      THEN Divide(totalSales, totalInvoices)
                                      ELSE Zero]]
getSalesByTimePeriod(period, startDate, endDate) ==
    SalesByTimePeriod(invoices, period, startDate, endDate)

\* totalSales > 0 ? (item.total / totalSales) * 100 : 0
Percentage(total, totalSales) ==
    IF totalSales > 0 THEN Divide(total * 100, totalSales) ELSE Zero

getSalesByPaymentMethod(startDate, endDate) ==
    LET found == SalesRows(startDate, endDate)
        rows == [k \in 1 .. Len(found) |->
                   [key |-> found[k].paymentMethod,
                    totalAmount |-> found[k].totalAmount]]
        sales == GroupSales(rows, 1, << >>)
        totalSales == Reduce(sales, "total")
    IN  [data |-> [method \in DOMAIN sales |->
                     [total |-> sales[method].total,
                      count |-> sales[method].count,
                      average |-> Divide(sales[method].total,
                                         sales[method].count),
                      percentage |-> Percentage(sales[method].total,
                                                totalSales)]],
         summary |-> [totalMethods |-> Cardinality(DOMAIN sales),
                      totalSales |-> totalSales,
                      totalTransactions |-> Reduce(sales, "count")]]

\* Product.categoryId: p1 is in a category, the other products in none
Uncategorized == "uncategorized"
categoryId(p) == IF p = "p1" THEN "cat1" ELSE Uncategorized

\* the InvoiceItem rows of the invoices of the period, as rows to group
RECURSIVE ItemRows(_, _)
ItemRows(rows, k) ==
    IF k > Len(rows) THEN << >>
    ELSE [j \in 1 .. Len(rows[k].items) |->
            [key |-> categoryId(rows[k].items[j].productId),
             totalAmount |-> IF "total" \in DOMAIN rows[k].items[j]
                             THEN rows[k].items[j].total ELSE 0]]
         \o ItemRows(rows, k + 1)

getSalesByCategory(startDate, endDate) ==
    LET categorySales == ItemRows(SalesRows(startDate, endDate), 1)
        categoryMap == GroupSales(categorySales, 1,
                           Uncategorized :> [total |-> 0, count |-> 0])
        totalSales == Reduce(categoryMap, "total")
    IN  [data |-> [id \in DOMAIN categoryMap |->
                     [total |-> categoryMap[id].total,
                      percentage |-> Percentage(categoryMap[id].total,
                                                totalSales)]],
         summary |-> [totalCategories |-> Cardinality(DOMAIN categoryMap),
                      totalSales |-> totalSales]]

\* h.points < 0 && h.description.includes('Redeemed'), for some entry of c
hasRedeemed(c) ==
    \E k \in 1 .. Len(loyaltyHistory) :
        /\ loyaltyHistory[k].customerId = c
        /\ loyaltyHistory[k].points < 0
        /\ "description" \in DOMAIN loyaltyHistory[k]
        /\ loyaltyHistory[k].description = "Redeemed"

RECURSIVE SumPoints(_)
SumPoints(cs) ==
    IF cs = {} THEN 0
    ELSE LET c == CHOOSE c \in cs : TRUE
         IN  customers[c].loyaltyPoints + SumPoints(cs \ {c})

UtilizationRate_Guarded(redeemed, withPoints) ==
    IF withPoints > 0 THEN Divide(redeemed, withPoints) ELSE Zero
UtilizationRate(redeemed, withPoints) == Divide(redeemed, withPoints)

getLoyaltyAnalysis ==
    LET loyaltyData == DOMAIN customers
        totalLoyaltyPoints == SumPoints(loyaltyData)
        customersWithPoints ==
            {c \in loyaltyData : customers[c].loyaltyPoints > 0}
    IN  [summary |->
           [totalCustomers |-> Cardinality(loyaltyData),
            customersWithPoints |-> Cardinality(customersWithPoints),
            totalLoyaltyPoints |-> totalLoyaltyPoints,
            avgPointsPerCustomer |->
                IF Cardinality(customersWithPoints) > 0
                THEN Divide(totalLoyaltyPoints,
                            Cardinality(customersWithPoints))
                ELSE Zero,
            pointsUtilizationRate |->
                UtilizationRate(
                    Cardinality({c \in loyaltyData : hasRedeemed(c)}),
                    Cardinality(customersWithPoints))]]

\* the tiers, in cents; the last one has no upper end
Infinity == 1000000000
spendingTiers ==
    <<[name |-> "Low", range |-> <<0, 10000>>],
      [name |-> "Medium", range |-> <<10100, 50000>>],
      [name |-> "High", range |-> <<50100, 100000>>],
      [name |-> "VIP", range |-> <<100100, Infinity>>]>>

\* the first tier whose range holds the amount, or 0 when none does
TierOf(totalSpent) ==
    IF \E t \in 1 .. Len(spendingTiers) :
           /\ totalSpent >= spendingTiers[t].range[1]
           /\ totalSpent <= spendingTiers[t].range[2]
    THEN CHOOSE t \in 1 .. Len(spendingTiers) :
           /\ totalSpent >= spendingTiers[t].range[1]
           /\ totalSpent <= spendingTiers[t].range[2]
           /\ \A u \in 1 .. t - 1 :
                  ~ /\ totalSpent >= spendingTiers[u].range[1]
                    /\ totalSpent <= spendingTiers[u].range[2]
    ELSE 0

RECURSIVE SumSpent(_, _)
SumSpent(spent, cs) ==
    IF cs = {} THEN 0
    ELSE LET c == CHOOSE c \in cs : TRUE
         IN  spent[c].total + SumSpent(spent, cs \ {c})

getSpendingTiersAnalysis(startDate, endDate) ==
    LET found == SelectSeq(SalesRows(startDate, endDate),
                           LAMBDA invoice : invoice.customerId # NoCustomer)
        rows == [k \in 1 .. Len(found) |->
                   [key |-> found[k].customerId,
                    totalAmount |-> found[k].totalAmount]]
        grouped == GroupSales(rows, 1, << >>)
        validCustomers == DOMAIN grouped \cap DOMAIN customers
        members(t) == {c \in validCustomers : TierOf(grouped[c].total) = t}
        totalSpent == SumSpent(grouped, validCustomers)
    IN  [summary |->
           [totalCustomers |-> Cardinality(validCustomers),
            totalSpent |-> totalSpent,
            avgSpending |-> IF Cardinality(validCustomers) > 0
                            THEN Divide(totalSpent,
                                        Cardinality(validCustomers))
                            ELSE Zero],
         spendingTiers |->
           [t \in 1 .. Len(spendingTiers) |->
              [count |-> Cardinality(members(t)),
               totalSpent |-> SumSpent(grouped, members(t)),
               percentage |->
                   IF Cardinality(validCustomers) > 0
                   THEN Divide(Cardinality(members(t)) * 100,
                               Cardinality(validCustomers))
                   ELSE Zero,
               avgSpending |->
                   IF Cardinality(members(t)) > 0
                   THEN Divide(SumSpent(grouped, members(t)),
                               Cardinality(members(t)))
                   ELSE Zero]]]

ReportTypes == {"sales", "categories", "payments"}
CustomerReportTypes == {"loyalty", "spending-tiers"}

\* GET /api/reports?type=..&period=..&startDate=..&endDate=..
GetReport(type, period, startDate, endDate) ==
    /\ IF session = NoSession \/ ~isManager(session)
       THEN resp' = Response("report", 403)
       ELSE resp' = ReportResponse("report",
                [type |-> type, period |-> period,
                 start |-> startDate, end |-> endDate,
                 result |->
                    CASE type = "sales" ->
                           getSalesByTimePeriod(period, startDate, endDate)
                      [] type = "categories" ->
                           getSalesByCategory(startDate, endDate)
                      [] OTHER ->
                           getSalesByPaymentMethod(startDate, endDate)])
    /\ UNCHANGED <<tables, session, reqs, writer, memItems, clock, billing>>

\* GET /api/reports/customers?type=..&startDate=..&endDate=..
GetCustomerReport(type, startDate, endDate) ==
    /\ IF session = NoSession \/ ~isManager(session)
       THEN resp' = Response("customerReport", 403)
       ELSE resp' = ReportResponse("customerReport",
                [type |-> type, start |-> startDate, end |-> endDate,
                 result |->
                    IF type = "loyalty" THEN getLoyaltyAnalysis
                    ELSE getSpendingTiersAnalysis(startDate, endDate)])
    /\ UNCHANGED <<tables, session, reqs, writer, memItems, clock, billing>>

(***************************************************************************)
(* The shop at start                                                       *)
(***************************************************************************)
\* the seeded shop: p1 and p2 with 1 in stock each, customer c1 with 4 points
Seed ==
    CreateCustomerIn(
        CreateProductIn(CreateProductIn(EmptyStore, "p1", 1, "ADMIN"), "p2", 1, "ADMIN"),
        "c1", 4, "ADMIN")

Init ==
    /\ stock = Seed.stock
    /\ customers = Seed.customers
    /\ invoices = Seed.invoices
    /\ returns = Seed.returns
    /\ stockHistory = Seed.stockHistory
    /\ loyaltyHistory = Seed.loyaltyHistory
    /\ activityLog = Seed.activityLog
    /\ session \in Sessions
    /\ resp = Response("none", 0)
    /\ reqs = << >>
    /\ writer = 0
    /\ memItems = SeedItems
    /\ clock = 0
    /\ billing = Unmounted

Next ==
    \/ \E data \in InvoiceRequests, n \in InvoiceNumberDraws : CreateInvoice(data, n)
    \/ \E id \in InvoiceIdInputs : VoidInvoice(id)
    \/ \E id \in InvoiceIdInputs, st \in StatusInputs : UpdateInvoice(id, st)
    \/ \E data \in ReturnRequests : CreateReturn(data)
    \/ \E p \in {"p1", UnknownProduct}, n \in StockInputs : UpdateProduct(p, n)
    \/ \E c \in CustomerIds, n \in {6} : CreateCustomer(c, n)
    \/ \E c \in CustomerIds, n \in PointInputs : UpdateCustomer(c, n)

Spec == Init /\ [][Next]_vars

(***************************************************************************)
(* The life of an invoice                                                  *)
(*                                                                         *)
(* An administrator in a shop that has only product p1, 1 in stock, sells  *)
(* it without a customer and then voids, updates and returns the invoices. *)
(***************************************************************************)
SeedLifecycle == CreateProductIn(EmptyStore, "p1", 1, "ADMIN")

LifecycleInvoice ==
    [customerId |-> NoCustomer, items |-> <<Line("p1", 1)>>, totalAmount |-> 2500]

LifecycleReturns ==
    [invoiceId : InvoiceIdInputs, items : {<<Line("p1", 1)>>},
     totalAmount : {2500}, status : {"COMPLETED", "PENDING"}]

InitLifecycle ==
    /\ stock = SeedLifecycle.stock
    /\ customers = SeedLifecycle.customers
    /\ invoices = SeedLifecycle.invoices
    /\ returns = SeedLifecycle.returns
    /\ stockHistory = SeedLifecycle.stockHistory
    /\ loyaltyHistory = SeedLifecycle.loyaltyHistory
    /\ activityLog = SeedLifecycle.activityLog
    /\ session = "ADMIN"
    /\ resp = Response("none", 0)
    /\ reqs = << >>
    /\ writer = 0
    /\ memItems = SeedItems
    /\ clock = 0
    /\ billing = Unmounted

NextLifecycle ==
    \/ \E n \in InvoiceNumberDraws : CreateInvoice(LifecycleInvoice, n)
    \/ \E id \in InvoiceIdInputs : VoidInvoice(id)
    \/ \E id \in InvoiceIdInputs, st \in StatusInputs : UpdateInvoice(id, st)
    \/ \E data \in LifecycleReturns : CreateReturn(data)

SpecLifecycle == InitLifecycle /\ [][NextLifecycle]_vars

(***************************************************************************)
(* The returns desk                                                        *)
(*                                                                         *)
(* A manager in the seeded shop sells and takes back.  Every return        *)
(* request names an invoice and has lines, so a 400 is the answer of the   *)
(* validation loop.                                                        *)
(***************************************************************************)
DeskInvoices ==
    [customerId : {"c1", NoCustomer},
     items : {<<Line("p1", 2)>>, <<Line("p1", 1), Line("p1", 1)>>,
              <<Line("p1", 1), Line("p2", 1)>>},
     totalAmount : {2500}]

DeskReturns ==
    [invoiceId : 1 .. (Len(invoices) + 1), items : ReturnItemLists,
     totalAmount : Amounts, status : {"COMPLETED", "PENDING"}]

InitDesk == Init /\ session = "MANAGER"

NextDesk ==
    \/ \E data \in DeskInvoices : CreateInvoice(data, Len(invoices) + 1)
    \/ \E data \in DeskReturns : CreateReturn(data)

SpecDesk == InitDesk /\ [][NextDesk]_vars

(***************************************************************************)
(* The front door                                                          *)
(*                                                                         *)
(* One request after another to every handler that writes, from a visitor  *)
(* without a session and from a user of each role, in the seeded shop.     *)
(***************************************************************************)
DoorOpen == Len(activityLog) < MaxDoorLog

\* invoice requests with items missing, empty, and an object instead of a list
ItemlessInvoices ==
    { [customerId |-> NoCustomer, totalAmount |-> 2500],
      [customerId |-> NoCustomer, totalAmount |-> 2500, items |-> << >>],
      [customerId |-> NoCustomer, totalAmount |-> 2500,
       items |-> (5 :> Line("p1", 1))] }

NextDoor ==
    \/ \E data \in {LifecycleInvoice} \cup ItemlessInvoices :
          DoorOpen /\ CreateInvoice(data, Len(invoices) + 1)
    \/ \E id \in InvoiceIdInputs : DoorOpen /\ VoidInvoice(id)
    \/ \E id \in InvoiceIdInputs : DoorOpen /\ UpdateInvoice(id, "VOIDED")
    \/ \E data \in LifecycleReturns : DoorOpen /\ CreateReturn(data)
    \/ DoorOpen /\ CreateProduct("p3", 3)
    \/ DoorOpen /\ UpdateProduct("p1", 3)
    \/ PatchProducts(<<PatchItem("p1", 2), PatchItem("p2", 2)>>)
    \/ DoorOpen /\ CreateCustomer("c2", 6)
    \/ DoorOpen /\ UpdateCustomer("c1", 6)
    \/ \E p \in {"p2", UnknownProduct} : DoorOpen /\ DeleteProduct(p)
    \/ \E c \in CustomerIds : DoorOpen /\ DeleteCustomer(c)
    \/ \E id \in {NoId, 1} : PostItem(id)
    \/ \E id \in {NoId, 1} : DeleteItem(id)

SpecDoor == Init /\ [][NextDoor]_vars

(***************************************************************************)
(* The till                                                                *)
(*                                                                         *)
(* A cashier in the seeded shop sends invoices with the amounts the client *)
(* computed: the total of each line, the tax, the discount and the total.  *)
(***************************************************************************)
PricedLine(p, q, total) == [productId |-> p, quantity |-> q, total |-> total]

TillInvoices ==
    [customerId : {NoCustomer},
     items : {<<PricedLine("p1", 1, 1000)>>,
              <<PricedLine("p1", 1, 1000), PricedLine("p2", 1, 500)>>},
     taxAmount : {0, 100},
     discountAmount : {Undefined, 50},
     totalAmount : {1000, 1050, 1100, 1600}]

TillOpen == Len(activityLog) < MaxTillLog

InitTill == Init /\ session = "CASHIER"

NextTill == \E data \in TillInvoices : TillOpen /\ CreateInvoice(data, Len(invoices) + 1)

SpecTill == InitTill /\ [][NextTill]_vars

(***************************************************************************)
(* The stock room                                                          *)
(*                                                                         *)
(* An administrator starts from the empty database, creates the products,  *)
(* updates their stock one by one and in bulk, and sells, voids and takes  *)
(* back p1.                                                                *)
(***************************************************************************)
\* the stock room's run ends after MaxInventoryLog logged operations
InventoryOpen == Len(activityLog) < MaxInventoryLog

InitInventory ==
    /\ stock = EmptyStore.stock
    /\ customers = EmptyStore.customers
    /\ invoices = EmptyStore.invoices
    /\ returns = EmptyStore.returns
    /\ stockHistory = EmptyStore.stockHistory
    /\ loyaltyHistory = EmptyStore.loyaltyHistory
    /\ activityLog = EmptyStore.activityLog
    /\ session = "ADMIN"
    /\ resp = Response("none", 0)
    /\ reqs = << >>
    /\ writer = 0
    /\ memItems = SeedItems
    /\ clock = 0
    /\ billing = Unmounted

NextInventory ==
    \/ \E p \in ProductIds, n \in StockInputs : InventoryOpen /\ CreateProduct(p, n)
    \/ \E p \in {"p1", UnknownProduct}, n \in StockInputs :
          InventoryOpen /\ UpdateProduct(p, n)
    \/ \E items \in PatchLists : PatchProducts(items)
    \/ \E n \in InvoiceNumberDraws :
          InventoryOpen /\ CreateInvoice(LifecycleInvoice, n)
    \/ \E id \in InvoiceIdInputs : InventoryOpen /\ VoidInvoice(id)
    \/ \E data \in LifecycleReturns : InventoryOpen /\ CreateReturn(data)

SpecInventory == InitInventory /\ [][NextInventory]_vars

(***************************************************************************)
(* The back office                                                         *)
(*                                                                         *)
(* An administrator sells p1 and p2 for cash or by card, to c1 or to a     *)
(* walk-in, voids invoices and deletes c1 as the days pass, and asks for   *)
(* the reports over every window of the run.                               *)
(***************************************************************************)
MaxReportLog == 5    \* committed operations of the back office, seeding included

ReportOpen == Len(activityLog) < MaxReportLog

\* c1 pays by card and the walk-in in cash; p1 costs 100.50 and p2 50.00
PriceOf(p) == IF p = "p1" THEN 10050 ELSE 5000
ReportInvoices ==
    {[customerId |-> c, items |-> <<PricedLine(p, 1, PriceOf(p))>>,
      totalAmount |-> PriceOf(p),
      paymentMethod |-> IF c = "c1" THEN "CARD" ELSE "CASH"] :
        c \in {"c1", NoCustomer}, p \in ProductIds}

InitReports == Init /\ session = "ADMIN"

NextReports ==
    \/ \E data \in ReportInvoices :
           ReportOpen /\ CreateInvoice(data, Len(invoices) + 1)
    \/ \E id \in 1 .. Len(invoices) : ReportOpen /\ VoidInvoice(id)
    \/ ReportOpen /\ DeleteCustomer("c1")
    \/ Tick
    \/ \E type \in ReportTypes, w \in Windows :
           \E period \in IF type = "sales" THEN Periods ELSE {"day"} :
               GetReport(type, period, w[1], w[2])
    \/ \E type \in CustomerReportTypes, w \in Windows :
           GetCustomerReport(type, w[1], w[2])

SpecReports == InitReports /\ [][NextReports]_vars

(***************************************************************************)
(* The sales ledger                                                        *)
(*                                                                         *)
(* An administrator of a shop with one product sells p1 to walk-ins at     *)
(* two prices and voids invoices as the days pass, and asks for the sales  *)
(* report of the whole run, by day and by month.                           *)
(***************************************************************************)
MaxSalesLog == 5     \* committed operations of the sales ledger, seeding included

SalesOpen == Len(activityLog) < MaxSalesLog

SalesInvoices ==
    {[customerId |-> NoCustomer, items |-> <<PricedLine("p1", 1, a)>>,
      totalAmount |-> a] : a \in {5000, 10050}}

NextSales ==
    \/ \E data \in SalesInvoices :
           SalesOpen /\ CreateInvoice(data, Len(invoices) + 1)
    \/ \E id \in 1 .. Len(invoices) : SalesOpen /\ VoidInvoice(id)
    \/ Tick
    \/ \E period \in Periods : GetReport("sales", period, 0, MaxClock)

SpecSales == InitLifecycle /\ [][NextSales]_vars

(***************************************************************************)
(* The billing page                                                        *)
(*                                                                         *)
(* A cashier opens the page, which fetches the two seeded items with any   *)
(* quantity up to MaxShelf, and adds to and removes from the cart.         *)
(***************************************************************************)
InitCart == Init /\ session = "CASHIER"

NextCart ==
    \/ \E data \in Shelves : fetchItems(data)
    \/ \E id \in DOMAIN billing.items : addToCart(id)
    \/ \E id \in DOMAIN billing.cart : removeFromCart(id)

SpecCart == InitCart /\ [][NextCart]_vars

(***************************************************************************)
(* Concurrent POST /invoices                                               *)
(*                                                                         *)
(* Each request runs its transaction statement by statement.  The store    *)
(* is SQLite: the first write of a transaction takes the database's write  *)
(* lock and keeps it until commit or rollback, and tx.invoice.create, the  *)
(* first statement, is a write.                                            *)
(***************************************************************************)
RequestIds == {1, 2}

ConcRequests ==
    [customerId : {"c1", NoCustomer},
     items : { <<Line("p1", 1)>>, <<Line("p1", 1), Line(UnknownProduct, 1)>> },
     totalAmount : {2500}]

NoData == [customerId |-> NoCustomer, items |-> << >>, totalAmount |-> 0]

Idle ==
    [pc |-> "idle", data |-> NoData, invoiceNumber |-> 0, line |-> 0,
     work |-> EmptyStore, status |-> 0]

Finished(r, status) ==
    [reqs[r] EXCEPT !.pc = "done", !.status = status, !.work = EmptyStore]

\* the handler up to the transaction: session, validation, number draw
Arrive(r, data, n) ==
    /\ reqs[r].pc = "idle"
    /\ reqs' = [reqs EXCEPT ![r] =
                  IF ~isCashier(session)
                  THEN [Finished(r, 403) EXCEPT !.data = data]
                  ELSE IF Len(data.items) = 0
                  THEN [Finished(r, 400) EXCEPT !.data = data]
                  ELSE [@ EXCEPT !.pc = "begin", !.data = data, !.invoiceNumber = n]]
    /\ UNCHANGED <<tables, session, memItems, resp, writer, clock, billing>>

\* tx.invoice.create, taking the write lock
TxInvoiceCreate(r) ==
    /\ reqs[r].pc = "begin"
    /\ writer = 0
    /\ writer' = r
    /\ LET r1 == InvoiceCreate(Store, reqs[r].data, reqs[r].invoiceNumber)
       IN  reqs' = [reqs EXCEPT ![r] =
                      [@ EXCEPT !.pc = IF r1.ok THEN "lines" ELSE "rollback",
                                !.line = 1,
                                !.work = r1.s]]
    /\ UNCHANGED <<tables, session, memItems, resp, clock, billing>>

\* one pass of the stock loop
TxSaleLine(r) ==
    /\ reqs[r].pc = "lines"
    /\ reqs[r].line <= Len(reqs[r].data.items)
    /\ LET r2 == SaleLine(reqs[r].work, reqs[r].data.items[reqs[r].line],
                          Len(reqs[r].work.invoices))
       IN  reqs' = [reqs EXCEPT ![r] =
                      [@ EXCEPT !.pc = IF r2.ok THEN "lines" ELSE "rollback",
                                !.line = @ + 1,
                                !.work = r2.s]]
    /\ UNCHANGED <<tables, session, memItems, resp, writer, clock, billing>>

TxAccruePoints(r) ==
    /\ reqs[r].pc = "lines"
    /\ reqs[r].line > Len(reqs[r].data.items)
    /\ reqs' = [reqs EXCEPT ![r] =
                  [@ EXCEPT !.pc = "log",
                            !.work = AccruePoints(reqs[r].work, reqs[r].data)]]
    /\ UNCHANGED <<tables, session, memItems, resp, writer, clock, billing>>

TxWriteLog(r) ==
    /\ reqs[r].pc = "log"
    /\ reqs' = [reqs EXCEPT ![r] =
                  [@ EXCEPT !.pc = "commit",
                            !.work = WriteLog(reqs[r].work, "CREATE_INVOICE")]]
    /\ UNCHANGED <<tables, session, memItems, resp, writer, clock, billing>>

TxCommit(r) ==
    /\ reqs[r].pc = "commit"
    /\ Commit(reqs[r].work)
    /\ writer' = 0
    /\ reqs' = [reqs EXCEPT ![r] = Finished(r, 201)]
    /\ resp' = Response("createInvoice", 201)
    /\ UNCHANGED <<session, memItems, clock, billing>>

TxRollback(r) ==
    /\ reqs[r].pc = "rollback"
    /\ writer' = 0
    /\ reqs' = [reqs EXCEPT ![r] = Finished(r, 500)]
    /\ resp' = Response("createInvoice", 500)
    /\ UNCHANGED <<tables, session, memItems, clock, billing>>

InitConc ==
    /\ stock = Seed.stock
    /\ customers = Seed.customers
    /\ invoices = Seed.invoices
    /\ returns = Seed.returns
    /\ stockHistory = Seed.stockHistory
    /\ loyaltyHistory = Seed.loyaltyHistory
    /\ activityLog = Seed.activityLog
    /\ session \in Roles
    /\ resp = Response("none", 0)
    /\ reqs = [r \in RequestIds |-> Idle]
    /\ writer = 0
    /\ memItems = SeedItems
    /\ clock = 0
    /\ billing = Unmounted

NextConc ==
    \E r \in RequestIds :
        \/ \E data \in ConcRequests, n \in RequestIds : Arrive(r, data, n)
        \/ TxInvoiceCreate(r)
        \/ TxSaleLine(r)
        \/ TxAccruePoints(r)
        \/ TxWriteLog(r)
        \/ TxCommit(r)
        \/ TxRollback(r)

SpecConc == InitConc /\ [][NextConc]_vars

(***************************************************************************)
(* Concurrent DELETE /invoices/{id} and POST /returns                      *)
(*                                                                         *)
(* Each handler reads the invoice and checks it before its transaction,    *)
(* one await at a time, and its transaction works from the invoice as it   *)
(* was read.  The transactions themselves run one after the other: the     *)
(* first statement of each is a write and takes SQLite's write lock.       *)
(***************************************************************************)
RaceInvoice ==
    [customerId |-> "c1", items |-> <<Line("p1", 1)>>, totalAmount |-> 2500]

\* the seeded shop after invoice 1 was created
RaceSeed == CreateInvoiceBody(Seed, RaceInvoice, 1).s

NoReturn == [invoiceId |-> NoInvoice, items |-> << >>, totalAmount |-> 0,
             status |-> "COMPLETED"]

RaceReturns ==
    [invoiceId : {1}, items : {<<Line("p1", 1)>>}, totalAmount : {2500},
     status : {"COMPLETED", "PENDING"}]

RaceRequests ==
    [kind : {"void"}, invoiceId : {1, 2}, data : {NoReturn}]
    \cup {[kind |-> "return", invoiceId |-> data.invoiceId, data |-> data] :
             data \in RaceReturns}

Waiting ==
    [pc |-> "idle", kind |-> "void", invoiceId |-> NoInvoice,
     data |-> NoReturn, existing |-> RaceSeed.invoices[1], status |-> 0]

Answered(r, status) == [reqs[r] EXCEPT !.pc = "done", !.status = status]

\* the request arrives: the session check
Receive(r, q) ==
    /\ reqs[r].pc = "idle"
    /\ LET got == [reqs[r] EXCEPT !.kind = q.kind, !.invoiceId = q.invoiceId,
                                  !.data = q.data]
           allowed == IF q.kind = "void" THEN isAdmin(session)
                      ELSE isManager(session)
       IN  reqs' = [reqs EXCEPT ![r] =
                      IF ~allowed
                      THEN [got EXCEPT !.pc = "done", !.status = 403]
                      ELSE [got EXCEPT !.pc = "find"]]
    /\ UNCHANGED <<tables, session, memItems, resp, writer, clock, billing>>

\* prisma.invoice.findUnique and the checks on what it returned
FindInvoice(r) ==
    /\ reqs[r].pc = "find"
    /\ LET id == reqs[r].invoiceId
       IN  reqs' = [reqs EXCEPT ![r] =
              IF ~Exists(id) THEN Answered(r, 404)
              ELSE IF reqs[r].kind = "void"
              THEN IF invoices[id].status = "VOIDED" THEN Answered(r, 400)
                   ELSE [@ EXCEPT !.pc = "returns", !.existing = invoices[id]]
              ELSE IF ~ValidReturnItems(invoices[id], reqs[r].data.items)
                   THEN Answered(r, 400)
                   ELSE [@ EXCEPT !.pc = "tx", !.existing = invoices[id]]]
    /\ UNCHANGED <<tables, session, memItems, resp, writer, clock, billing>>

\* prisma.returnOrder.findFirst of the void handler
FindReturns(r) ==
    /\ reqs[r].pc = "returns"
    /\ reqs' = [reqs EXCEPT ![r] =
                  IF hasReturns(reqs[r].invoiceId) THEN Answered(r, 400)
                  ELSE [@ EXCEPT !.pc = "tx"]]
    /\ UNCHANGED <<tables, session, memItems, resp, writer, clock, billing>>

\* prisma.$transaction of either handler, and the response
RunTransaction(r) ==
    /\ reqs[r].pc = "tx"
    /\ LET done ==
               IF reqs[r].kind = "void"
               THEN VoidInvoiceBody(Store, reqs[r].existing, reqs[r].invoiceId)
               ELSE CreateReturnBody(Store, reqs[r].existing, reqs[r].data)
           status == IF ~done.ok THEN 500
                     ELSE IF reqs[r].kind = "void" THEN 200 ELSE 201
       IN  /\ Commit(Transaction(Store, done))
           /\ reqs' = [reqs EXCEPT ![r] = Answered(r, status)]
           /\ resp' = Response(IF reqs[r].kind = "void" THEN "voidInvoice"
                               ELSE "createReturn", status)
    /\ UNCHANGED <<session, memItems, writer, clock, billing>>

InitRace ==
    /\ session \in {"MANAGER", "ADMIN"}
    /\ clock = 0
    /\ stock = RaceSeed.stock
    /\ customers = RaceSeed.customers
    /\ invoices = RaceSeed.invoices
    /\ returns = RaceSeed.returns
    /\ stockHistory = RaceSeed.stockHistory
    /\ loyaltyHistory = RaceSeed.loyaltyHistory
    /\ activityLog = RaceSeed.activityLog
    /\ resp = Response("none", 0)
    /\ reqs = [r \in RequestIds |-> Waiting]
    /\ writer = 0
    /\ memItems = SeedItems
    /\ billing = Unmounted

NextRace ==
    \E r \in RequestIds :
        \/ \E q \in RaceRequests : Receive(r, q)
        \/ FindInvoice(r)
        \/ FindReturns(r)
        \/ RunTransaction(r)

SpecRace == InitRace /\ [][NextRace]_vars

(***************************************************************************)
(* Properties                                                              *)
(***************************************************************************)
RECURSIVE QuantityOf(_, _)
\* the total quantity of product p over the lines of an item list
QuantityOf(items, p) ==
    IF items = << >> THEN 0
    ELSE (IF Head(items).productId = p THEN Head(items).quantity ELSE 0)
         + QuantityOf(Tail(items), p)

\* C1: in every reachable state every product's stock is >= 0.
C1_StockNeverNegative == \A p \in DOMAIN stock : stock[p] >= 0

\* a line of the request asks for more than the product's current stock
Overstock(data) ==
    \E k \in 1 .. Len(data.items) :
        /\ data.items[k].productId \in DOMAIN stock
        /\ data.items[k].quantity > stock[data.items[k].productId]

\* C2: an invoice creation with a line whose quantity exceeds the product's
\* current stock fails and leaves every table unchanged.
C2_InsufficientStockRejected ==
    [][\A data \in InvoiceRequests, n \in InvoiceNumberDraws :
          (CreateInvoice(data, n) /\ Overstock(data))
              => (resp'.status # 201 /\ UNCHANGED tables)]_vars

\* C3: when two concurrent requests, each for 1 of p1 whose stock is 1, have
\* both been answered, exactly one was answered 201 and the stock of p1 is
\* not below 0.
C3_ExactlyOneSucceeds ==
    (\A r \in RequestIds :
        reqs[r].pc = "done" /\ reqs[r].data.items = <<Line("p1", 1)>>)
        => /\ Cardinality({r \in RequestIds : reqs[r].status = 201}) = 1
           /\ stock["p1"] >= 0

\* Every step of Next ends a request and sets resp to its answer, so resp'
\* tells which handler the step ran and how it ended.
CreateFailed == resp'.op = "createInvoice" /\ resp'.status # 201
Created == resp'.op = "createInvoice" /\ resp'.status = 201
NewInvoice == invoices'[Len(invoices')]
VoidedNow(id) ==
    /\ resp' = Response("voidInvoice", 200)
    /\ id \in 1 .. Len(invoices)
    /\ invoices[id].status # "VOIDED"
    /\ invoices'[id].status = "VOIDED"

\* C4: an invoice creation that fails, at whatever step of its transaction,
\* leaves every table as it was.
C4_CreateInvoiceAllOrNothing == [][CreateFailed => UNCHANGED tables]_vars

\* a creation failed on its second line's product, after the invoice row and
\* the first item were written: no invoice exists, so the number did not
\* collide, and c2 exists, so the customer was not the cause
C4_Witness ==
    /\ resp = Response("createInvoice", 500)
    /\ invoices = << >>
    /\ "c2" \in DOMAIN customers
    /\ stock = Seed.stock
    /\ stockHistory = Seed.stockHistory

SaleEntries(items, invoiceId) ==
    [k \in 1 .. Len(items) |->
        StockEntry(items[k].productId, items[k].quantity, "sale", invoiceId)]

\* C5: a successful invoice creation lowers each product's stock by the total
\* quantity invoiced for it, leaves the other products' stock alone, and
\* appends one 'sale' ledger entry per line with the line's quantity and the
\* new invoice's id.
C5_CreateInvoiceStockEffect ==
    [][Created =>
          /\ Len(invoices') = Len(invoices) + 1
          /\ DOMAIN stock' = DOMAIN stock
          /\ \A p \in DOMAIN stock :
                stock'[p] = stock[p] - QuantityOf(NewInvoice.items, p)
          /\ stockHistory' =
                stockHistory \o SaleEntries(NewInvoice.items, Len(invoices'))]_vars

\* an invoice with two lines for p1 was created: p1 fell by 2, p2 by 0
C5_Witness ==
    /\ resp = Response("createInvoice", 201)
    /\ Len(invoices) = 1
    /\ invoices[1].items = <<Line("p1", 1), Line("p1", 1)>>
    /\ stock = [p1 |-> -1, p2 |-> 1]

C7_TotalPurchasesRoundTrip ==
    (/\ resp = Response("voidInvoice", 200)
     /\ Len(invoices) = 1
     /\ returns = << >>
     /\ invoices[1].customerId \in DOMAIN customers)
        => customers[invoices[1].customerId].totalPurchases = 0

RECURSIVE SoldQuantity(_, _, _)
\* what the 'sale' ledger entries of an invoice took out of product p
SoldQuantity(history, invoiceId, p) ==
    IF history = << >> THEN 0
    ELSE (IF /\ Head(history).type = "sale"
             /\ Head(history).invoiceId = invoiceId
             /\ Head(history).productId = p
          THEN Head(history).quantity ELSE 0)
         + SoldQuantity(Tail(history), invoiceId, p)

AdjustmentEntries(items, invoiceId) ==
    [k \in 1 .. Len(items) |->
        StockEntry(items[k].productId, items[k].quantity, "adjustment", invoiceId)]

\* C8: a successful void puts back into each product's stock what the
\* invoice's creation took out of it, and appends one 'adjustment' ledger
\* entry per invoice line.
C8_VoidRestoresStock ==
    [][\A id \in InvoiceIdInputs :
          VoidedNow(id) =>
              /\ DOMAIN stock' = DOMAIN stock
              /\ \A p \in DOMAIN stock :
                    stock'[p] = stock[p] + SoldQuantity(stockHistory, id, p)
              /\ stockHistory' =
                    stockHistory \o AdjustmentEntries(invoices[id].items, id)]_vars

\* the only invoice, for 2 of p1, was created and voided with nothing else
\* touching stock: the stock is the seeded one again
C8_Witness ==
    /\ resp = Response("voidInvoice", 200)
    /\ Len(invoices) = 1
    /\ invoices[1].items = <<Line("p1", 2)>>
    /\ stock = Seed.stock
    /\ stockHistory = Seed.stockHistory
                         \o <<StockEntry("p1", 2, "sale", 1),
                              StockEntry("p1", 2, "adjustment", 1)>>

\* C9, the rejection itself: a void request that passed authorization, for
\* an invoice that is VOIDED or has a ReturnOrder of any status, is answered
\* 400 and changes no table; without authorization it is answered 403 and
\* changes none either.
C9_VoidRejected ==
    [][\A id \in InvoiceIdInputs :
          (/\ VoidInvoice(id)
           /\ id \in 1 .. Len(invoices)
           /\ \/ invoices[id].status = "VOIDED"
              \/ \E k \in 1 .. Len(returns) : returns[k].invoiceId = id) =>
              /\ UNCHANGED tables
              /\ resp' = Response("voidInvoice", IF session = "ADMIN" THEN 400 ELSE 403)]_vars

\* the 'adjustment' ledger entries a void of the invoice wrote
VoidEntries(history, invoiceId) ==
    {k \in 1 .. Len(history) :
        history[k].type = "adjustment" /\ history[k].invoiceId = invoiceId}

\* C9: an invoice that was voided once is never voided again: no void
\* succeeds for an invoice whose earlier void is in the stock ledger.
C9_SecondVoidAlwaysFails ==
    [][\A id \in InvoiceIdInputs :
          VoidedNow(id) => VoidEntries(stockHistory, id) = {}]_vars

\* the second void of the only invoice was answered 400
C9_Witness ==
    /\ resp = Response("voidInvoice", 400)
    /\ Len(invoices) = 1
    /\ invoices[1].status = "VOIDED"
    /\ returns = << >>

\* a void of an invoice whose only return is PENDING was answered 400
C9_WitnessPendingReturn ==
    /\ resp = Response("voidInvoice", 400)
    /\ Len(invoices) = 1
    /\ invoices[1].status = "PAID"
    /\ Len(returns) = 1
    /\ returns[1].status = "PENDING"

RECURSIVE LedgerPoints(_, _)
\* the sum of the points of customer c's LoyaltyHistory entries
LedgerPoints(history, c) ==
    IF history = << >> THEN 0
    ELSE (IF Head(history).customerId = c THEN Head(history).points ELSE 0)
         + LedgerPoints(Tail(history), c)

\* C10: for every customer, the points of the LoyaltyHistory entries sum to
\* the customer's loyaltyPoints.
C10_LoyaltyLedgerMatchesBalance ==
    \A c \in DOMAIN customers :
        LedgerPoints(loyaltyHistory, c) = customers[c].loyaltyPoints

\* the signed change a ledger entry records: purchase and return add, sale
\* takes away; an adjustment adds when a void wrote it (it carries the
\* invoice) and takes away when a product update wrote it
Delta(entry) ==
    CASE entry.type = "purchase" -> entry.quantity
      [] entry.type = "return" -> entry.quantity
      [] entry.type = "sale" -> -entry.quantity
      [] entry.type = "adjustment" ->
            IF entry.invoiceId # NoInvoice THEN entry.quantity ELSE -entry.quantity

RECURSIVE LedgerStock(_, _)
\* the signed sum of product p's StockHistory entries
LedgerStock(history, p) ==
    IF history = << >> THEN 0
    ELSE (IF Head(history).productId = p THEN Delta(Head(history)) ELSE 0)
         + LedgerStock(Tail(history), p)

\* C11: for every product, the stock equals the signed sum of the product's
\* StockHistory entries.
C11_StockLedgerReconciles ==
    \A p \in DOMAIN stock : stock[p] = LedgerStock(stockHistory, p)


\* C12: no two invoices share an invoiceNumber, and a creation whose drawn
\* number is that of an existing invoice is answered as a failure and
\* changes no table.
C12_InvoiceNumberUnique ==
    [][/\ \A i, j \in 1 .. Len(invoices') :
             i # j => invoices'[i].invoiceNumber # invoices'[j].invoiceNumber
       /\ \A n \in InvoiceNumberDraws :
             (/\ CreateInvoice(LifecycleInvoice, n)
              /\ \E i \in 1 .. Len(invoices) : invoices[i].invoiceNumber = n) =>
                 /\ resp' = Response("createInvoice", 500)
                 /\ UNCHANGED tables]_vars

\* a creation that drew the first invoice's number was answered 500: p1
\* exists and no customer is named, so only the number can have failed it
C12_Witness ==
    /\ resp = Response("createInvoice", 500)
    /\ Len(invoices) = 1
    /\ invoices[1].invoiceNumber = 1
    /\ "p1" \in DOMAIN stock

Terminal == {"VOIDED", "REFUNDED"}

\* C13: an invoice whose status is VOIDED or REFUNDED keeps that status in
\* every later step, and an invoice whose status becomes VOIDED or REFUNDED
\* was PAID before.
C13_TerminalStatuses ==
    [][\A id \in 1 .. Len(invoices) :
          /\ invoices[id].status \in Terminal =>
                 invoices'[id].status = invoices[id].status
          /\ (/\ invoices'[id].status \in Terminal
              /\ invoices'[id].status # invoices[id].status) =>
                 invoices[id].status = "PAID"]_vars

\* a return line that names a product not on the invoice, or more of it than
\* any invoice line for it holds
BadReturnLine(invoice, item) ==
    \A k \in 1 .. Len(invoice.items) :
        \/ invoice.items[k].productId # item.productId
        \/ item.quantity > invoice.items[k].quantity

\* C14: a return request for an existing invoice, with a line that names a
\* product not on the invoice or a quantity above the invoice line's, is
\* answered 400 and changes no table.
C14_InvalidReturnRejected ==
    [][\A data \in DeskReturns :
          (/\ CreateReturn(data)
           /\ data.invoiceId \in 1 .. Len(invoices)
           /\ \E k \in 1 .. Len(data.items) :
                 BadReturnLine(invoices[data.invoiceId], data.items[k])) =>
              /\ resp' = Response("createReturn", 400)
              /\ UNCHANGED tables]_vars

\* the only invoice holds p1 alone, no return exists, and a return request
\* was answered 400: it asked for p2 or for more p1 than a line holds
C14_Witness ==
    /\ resp = Response("createReturn", 400)
    /\ Len(invoices) = 1
    /\ invoices[1].items = <<Line("p1", 1), Line("p1", 1)>>
    /\ returns = << >>

\* a return's lines hold, for every product of the invoice, all that the
\* invoice sold of it
CoversInvoice(invoice, items) ==
    \A k \in 1 .. Len(invoice.items) :
        QuantityOf(items, invoice.items[k].productId)
            >= QuantityOf(invoice.items, invoice.items[k].productId)

\* C15: a COMPLETED return that covers the full invoiced quantity of every
\* line sets the invoice's status to REFUNDED, and one that covers less of
\* some line leaves the status as it was.
C15_RefundedOnFullReturn ==
    [][\A data \in DeskReturns :
          (/\ CreateReturn(data)
           /\ resp' = Response("createReturn", 201)
           /\ data.status = "COMPLETED") =>
              invoices'[data.invoiceId].status =
                  IF CoversInvoice(invoices[data.invoiceId], data.items)
                  THEN "REFUNDED"
                  ELSE invoices[data.invoiceId].status]_vars

ReturnEntries(items, invoiceId) ==
    [k \in 1 .. Len(items) |->
        StockEntry(items[k].productId, items[k].quantity, "return", invoiceId)]

\* C16: a created return appends its ReturnOrder with its lines and one
\* ActivityLog entry; when its status is not COMPLETED it changes no stock,
\* StockHistory, invoice, customer or LoyaltyHistory, and when it is
\* COMPLETED it raises each returned product's stock by the returned
\* quantity and appends one 'return' ledger entry per line.
C16_ReturnEffects ==
    [][\A data \in DeskReturns :
          (CreateReturn(data) /\ resp' = Response("createReturn", 201)) =>
              /\ Len(returns') = Len(returns) + 1
              /\ returns'[Len(returns')].invoiceId = data.invoiceId
              /\ returns'[Len(returns')].status = data.status
              /\ returns'[Len(returns')].items = data.items
              /\ activityLog' = Append(activityLog, LogEntry("CREATE_RETURN"))
              /\ IF data.status # "COMPLETED"
                 THEN UNCHANGED <<stock, stockHistory, invoices, customers,
                                  loyaltyHistory>>
                 ELSE /\ DOMAIN stock' = DOMAIN stock
                      /\ \A p \in DOMAIN stock :
                            stock'[p] = stock[p] + QuantityOf(data.items, p)
                      /\ stockHistory' =
                            stockHistory \o ReturnEntries(data.items, data.invoiceId)]_vars

\* a PENDING return of both units of the only invoice was created: the stock
\* is still what the sale left, the invoice still PAID, c1's points still 6
C16_Witness ==
    /\ resp = Response("createReturn", 201)
    /\ Len(invoices) = 1
    /\ invoices[1].items = <<Line("p1", 2)>>
    /\ invoices[1].status = "PAID"
    /\ invoices[1].customerId = "c1"
    /\ Len(returns) = 1
    /\ returns[1].status = "PENDING"
    /\ returns[1].items = <<Line("p1", 2)>>
    /\ stock = [p1 |-> -1, p2 |-> 1]
    /\ customers["c1"].loyaltyPoints = 6

\* a COMPLETED return of both units was created: p1 is back at 1
C16_WitnessCompleted ==
    /\ resp = Response("createReturn", 201)
    /\ Len(invoices) = 1
    /\ Len(returns) = 1
    /\ returns[1].status = "COMPLETED"
    /\ returns[1].items = <<Line("p1", 2)>>
    /\ stock = Seed.stock

RECURSIVE ReturnedQuantity(_, _, _)
\* the quantity of product p over all ReturnOrders of an invoice
ReturnedQuantity(orders, invoiceId, p) ==
    IF orders = << >> THEN 0
    ELSE (IF Head(orders).invoiceId = invoiceId
          THEN QuantityOf(Head(orders).items, p) ELSE 0)
         + ReturnedQuantity(Tail(orders), invoiceId, p)

\* C17: for every invoice and every product on it, the quantity of the
\* product over all the invoice's ReturnOrders is at most the quantity
\* invoiced.
C17_ReturnsWithinInvoiced ==
    \A id \in 1 .. Len(invoices) :
        \A k \in 1 .. Len(invoices[id].items) :
            ReturnedQuantity(returns, id, invoices[id].items[k].productId)
                <= QuantityOf(invoices[id].items, invoices[id].items[k].productId)

\* C18: a COMPLETED return on an invoice with a customer lowers the
\* customer's totalPurchases by the return's totalAmount and the
\* loyaltyPoints by floor(totalAmount / 10), and, when that is a point or
\* more, appends a LoyaltyHistory entry of minus that many points.
C18_ReturnDeductsFromCustomer ==
    [][\A data \in DeskReturns :
          (/\ CreateReturn(data)
           /\ resp' = Response("createReturn", 201)
           /\ data.status = "COMPLETED"
           /\ invoices[data.invoiceId].customerId \in DOMAIN customers) =>
              LET c == invoices[data.invoiceId].customerId
                  points == data.totalAmount \div 1000
              IN  /\ customers'[c].totalPurchases =
                        customers[c].totalPurchases - data.totalAmount
                  /\ customers'[c].loyaltyPoints =
                        customers[c].loyaltyPoints - points
                  /\ points > 0 =>
                        loyaltyHistory' =
                            Append(loyaltyHistory, LoyaltyEntry(c, -points))]_vars

\* the tier a handler asks for: 1 CASHIER, 2 MANAGER, 3 ADMIN
RequiredRank(op) ==
    CASE op \in {"createInvoice", "createCustomer", "updateCustomer"} -> 1
      [] op \in {"createReturn", "createProduct", "updateProduct", "patchProducts"} -> 2
      [] op \in {"updateInvoice", "voidInvoice", "deleteProduct", "deleteCustomer"} -> 3
      [] OTHER -> 1

\* C19: a request without a session, or with a role below the handler's
\* tier, is answered 403 and writes nothing, neither to a table nor to the
\* items array; invoice creation asks for CASHIER, return creation for
\* MANAGER, invoice update and void for ADMIN.
C19_RoleTiersEnforced ==
    [][(resp'.op # "none" /\ RoleRank(session) < RequiredRank(resp'.op)) =>
          /\ resp'.status = 403
          /\ UNCHANGED <<tables, memItems, clock, billing>>]_vars

\* C19, the handlers of the database: whoever is below the tier of a handler
\* that writes to a table gets 403 and no table changes.
C19_TableHandlersEnforceTiers ==
    [][(/\ resp'.op \notin {"none", "postItem", "deleteItem"}
        /\ RoleRank(session) < RequiredRank(resp'.op)) =>
          /\ resp'.status = 403
          /\ UNCHANGED tables]_vars

\* an invoice-creation request that names a product or a customer that does
\* not exist
NamesUnknown(data) ==
    \/ \E k \in 1 .. Len(data.items) : data.items[k].productId \notin DOMAIN stock
    \/ data.customerId # NoCustomer /\ data.customerId \notin DOMAIN customers

\* C20: a request that passed authorization and names an invoice, product or
\* customer that does not exist is answered 404 and changes no table: an
\* invoice creation with an unknown product or customer, a void or a return
\* of an unknown invoice.
C20_UnknownReferenceIs404 ==
    [][/\ \A data \in InvoiceRequests, n \in InvoiceNumberDraws :
             (CreateInvoice(data, n) /\ isCashier(session) /\ NamesUnknown(data)) =>
                 /\ resp' = Response("createInvoice", 404)
                 /\ UNCHANGED tables
       /\ (VoidInvoice(Len(invoices) + 1) /\ isAdmin(session)) =>
             /\ resp' = Response("voidInvoice", 404)
             /\ UNCHANGED tables
       /\ \A data \in ReturnRequests :
             (/\ CreateReturn(data)
              /\ isManager(session)
              /\ data.invoiceId = Len(invoices) + 1) =>
                 /\ resp' = Response("createReturn", 404)
                 /\ UNCHANGED tables]_vars

\* C20, void and return: an authorized void or return of an invoice that
\* does not exist is answered 404 and changes no table.
C20_UnknownInvoiceIs404 ==
    [][/\ (VoidInvoice(Len(invoices) + 1) /\ isAdmin(session)) =>
             /\ resp' = Response("voidInvoice", 404)
             /\ UNCHANGED tables
       /\ \A data \in LifecycleReturns :
             (CreateReturn(data) /\ data.invoiceId = Len(invoices) + 1) =>
                 /\ resp' = Response("createReturn", 404)
                 /\ UNCHANGED tables]_vars

\* a handler that writes to the database answered with success; a bulk
\* update counts when it updated a product
Succeeded ==
    /\ resp'.op \notin {"none", "postItem", "deleteItem"}
    /\ resp'.status \in {200, 201}
    /\ resp'.op = "patchProducts" => stock' # stock

\* C21: an operation that succeeds appends exactly one ActivityLog entry,
\* which names the acting user, and one that is rejected or fails appends
\* none.
C21_OneLogEntryPerOperation ==
    [][IF Succeeded
       THEN /\ Len(activityLog') = Len(activityLog) + 1
            /\ SubSeq(activityLog', 1, Len(activityLog)) = activityLog
            /\ activityLog'[Len(activityLog')].userId = session
       ELSE UNCHANGED activityLog]_vars

IsPrefix(a, b) == Len(a) <= Len(b) /\ SubSeq(b, 1, Len(a)) = a

\* C22: no step removes or changes an entry of StockHistory or of
\* LoyaltyHistory: each ledger after a step starts with the ledger before.
C22_LedgersAppendOnly ==
    [][/\ IsPrefix(stockHistory, stockHistory')
       /\ IsPrefix(loyaltyHistory, loyaltyHistory')]_vars

\* C23: every invoice has at least one item: no step leaves an invoice
\* without items or changes the items of an existing invoice, and an
\* invoice creation by a signed-in user whose items are missing, not a list
\* or empty is answered 400 and changes no table.
C23_InvoicesHaveItems ==
    [][/\ Len(invoices') >= Len(invoices)
       /\ \A id \in 1 .. Len(invoices') : Len(invoices'[id].items) >= 1
       /\ \A id \in 1 .. Len(invoices) : invoices'[id].items = invoices[id].items
       /\ \A data \in ItemlessInvoices :
             (CreateInvoice(data, Len(invoices) + 1) /\ isCashier(session)) =>
                 /\ resp' = Response("createInvoice", 400)
                 /\ UNCHANGED tables]_vars

\* with one invoice in the shop, a creation was answered 400: every product
\* and number is fine at the front door, so the items were not given
C23_Witness ==
    /\ resp = Response("createInvoice", 400)
    /\ Len(invoices) = 1
    /\ Len(invoices[1].items) = 1

RECURSIVE SumOfTotals(_)
SumOfTotals(items) ==
    IF items = << >> THEN 0 ELSE Head(items).total + SumOfTotals(Tail(items))

\* C24: for every invoice created at the till, the stored line totals plus
\* the stored tax minus the stored discount is the stored totalAmount.
C24_TotalsAddUp ==
    \A id \in 1 .. Len(invoices) :
        SumOfTotals(invoices[id].items) + invoices[id].taxAmount
            - invoices[id].discountAmount = invoices[id].totalAmount

RECURSIVE SumOfPercentages(_)
SumOfPercentages(data) ==
    IF DOMAIN data = {} THEN 0
    ELSE LET key == CHOOSE key \in DOMAIN data : TRUE
             rest == [other \in DOMAIN data \ {key} |-> data[other]]
         IN  data[key].percentage.num + SumOfPercentages(rest)

\* the percentages of a report are fractions of its total that add up to
\* 100, or all 0 when the total is 0
PercentagesAddUp(data, total) ==
    /\ total > 0 =>
         /\ \A key \in DOMAIN data : data[key].percentage.den = total
         /\ SumOfPercentages(data) = 100 * total
    /\ total = 0 => \A key \in DOMAIN data : IsZero(data[key].percentage)

Reported(op, type) ==
    /\ resp.op = op
    /\ resp.status = 200
    /\ resp.body.type = type

\* C25: in the category and the payment-method report the percentages sum
\* to 100 when the total is above 0 and are all 0 when it is 0, and every
\* percentage, average and rate a report returns is a number: 0 where its
\* denominator is 0, never the result of a division by 0.
C25_ReportRatiosDefined ==
    /\ Reported("report", "categories") =>
         PercentagesAddUp(resp.body.result.data,
                          resp.body.result.summary.totalSales)
    /\ Reported("report", "payments") =>
         /\ PercentagesAddUp(resp.body.result.data,
                             resp.body.result.summary.totalSales)
         /\ \A method \in DOMAIN resp.body.result.data :
                Finite(resp.body.result.data[method].average)
    /\ Reported("report", "sales") =>
         /\ Finite(resp.body.result.summary.averageSale)
         /\ \A key \in DOMAIN resp.body.result.data :
                Finite(resp.body.result.data[key].average)
    /\ Reported("customerReport", "loyalty") =>
         /\ Finite(resp.body.result.summary.avgPointsPerCustomer)
         /\ Finite(resp.body.result.summary.pointsUtilizationRate)
         /\ resp.body.result.summary.customersWithPoints = 0 =>
                IsZero(resp.body.result.summary.pointsUtilizationRate)
    /\ Reported("customerReport", "spending-tiers") =>
         /\ Finite(resp.body.result.summary.avgSpending)
         /\ \A t \in DOMAIN resp.body.result.spendingTiers :
                /\ Finite(resp.body.result.spendingTiers[t].percentage)
                /\ Finite(resp.body.result.spendingTiers[t].avgSpending)

\* the part of C25 about the two percentage reports alone
C25_PercentagesAddUp ==
    \A type \in {"categories", "payments"} :
        Reported("report", type) =>
            PercentagesAddUp(resp.body.result.data,
                             resp.body.result.summary.totalSales)

\* a payment-method report over card and cash sales
C25_PercentagesWitness ==
    /\ Reported("report", "payments")
    /\ Cardinality(DOMAIN resp.body.result.data) = 2
    /\ resp.body.result.summary.totalSales > 0

\* the invoices a sales report over [startDate, endDate] has to count
Counted(startDate, endDate) ==
    {id \in 1 .. Len(invoices) :
        /\ invoices[id].createdAt \in startDate .. endDate
        /\ invoices[id].status # "VOIDED"}

RECURSIVE SumOfAmounts(_)
SumOfAmounts(ids) ==
    IF ids = {} THEN 0
    ELSE LET id == CHOOSE id \in ids : TRUE
         IN  invoices[id].totalAmount + SumOfAmounts(ids \ {id})

C26_Buckets ==
    \A period \in Periods, w \in Windows :
        LET report == getSalesByTimePeriod(period, w[1], w[2])
            counted == Counted(w[1], w[2])
            InBucket(key) ==
                {id \in counted :
                    formatDateByPeriod(invoices[id].createdAt, period) = key}
        IN  /\ \A id \in counted :
                   formatDateByPeriod(invoices[id].createdAt, period)
                       \in DOMAIN report.data
            /\ \A key \in DOMAIN report.data :
                   /\ report.data[key].count = Cardinality(InBucket(key))
                   /\ report.data[key].total = SumOfAmounts(InBucket(key))
            /\ report.summary.totalInvoices = Cardinality(counted)
            /\ report.summary.totalSales = Reduce(report.data, "total")
            /\ report.summary.totalSales = SumOfAmounts(counted)

C26_VoidLowersTotal ==
    \A id \in 1 .. Len(invoices) :
        (invoices[id].status = "PAID" /\ invoices'[id].status = "VOIDED") =>
            \A period \in Periods, w \in Windows :
                invoices[id].createdAt \in w[1] .. w[2] =>
                    SalesByTimePeriod(invoices', period, w[1], w[2])
                            .summary.totalSales
                        = getSalesByTimePeriod(period, w[1], w[2])
                              .summary.totalSales - invoices[id].totalAmount

\* C26: in the sales report of every period and window, each bucket counts
\* and totals exactly the non-VOIDED invoices of the window that bear its
\* key, every such invoice bears the key of a bucket, summary.totalSales is
\* the sum of the bucket totals and of the totalAmount of those invoices,
\* and voiding a PAID invoice lowers the total of every window that holds
\* it by the invoice's totalAmount.
C26_SalesReportCountsOnce == []C26_Buckets /\ [][C26_VoidLowersTotal]_vars

\* a sales report of two buckets, returned while an invoice of its window
\* is VOIDED and another is counted
C26_Witness ==
    /\ Reported("report", "sales")
    /\ resp.body.result
           = getSalesByTimePeriod(resp.body.period, resp.body.start,
                                  resp.body.end)
    /\ Cardinality(DOMAIN resp.body.result.data) = 2
    /\ resp.body.result.summary.totalInvoices = 2
    /\ \E id \in 1 .. Len(invoices) :
           /\ invoices[id].status = "VOIDED"
           /\ invoices[id].createdAt \in resp.body.start .. resp.body.end

\* the units of p that voids and COMPLETED returns of an invoice put back
RECURSIVE PutBackQuantity(_, _, _)
PutBackQuantity(history, invoiceId, p) ==
    IF history = << >> THEN 0
    ELSE (IF /\ Head(history).type \in {"adjustment", "return"}
             /\ Head(history).invoiceId = invoiceId
             /\ Head(history).productId = p
          THEN Head(history).quantity ELSE 0)
         + PutBackQuantity(Tail(history), invoiceId, p)

RestoringReturns(history, invoiceId) ==
    {k \in 1 .. Len(history) :
        history[k].type = "return" /\ history[k].invoiceId = invoiceId}

\* C27: for every invoice and product, the units its void and its
\* COMPLETED returns have put back into stock are at most the units it
\* sold, and no invoice has both a stock-restoring void and a
\* stock-restoring return.
C27_PutBackWithinSold ==
    \A id \in 1 .. Len(invoices) :
        /\ \A p \in ProductIds :
               PutBackQuantity(stockHistory, id, p)
                   <= SoldQuantity(stockHistory, id, p)
        /\ VoidEntries(stockHistory, id) = {}
               \/ RestoringReturns(stockHistory, id) = {}

\* the requests that voided the invoice
Voiders(id) ==
    {r \in RequestIds :
        /\ reqs[r].pc = "done"
        /\ reqs[r].kind = "void"
        /\ reqs[r].invoiceId = id
        /\ reqs[r].status = 200}

\* C28: of the voids that two clients send for the same PAID invoice at
\* the same time, exactly one takes effect: at most one is answered 200
\* and the invoice's lines are put back into stock at most once.
C28_OneVoidTakesEffect ==
    \A id \in 1 .. Len(invoices) :
        /\ Cardinality(Voiders(id)) <= 1
        /\ Cardinality(VoidEntries(stockHistory, id)) <= Len(invoices[id].items)

\* the other half of C28, for a void and a return sent at the same time:
\* the invoice is never VOIDED while it has a ReturnOrder
C28_NeverVoidedWithReturn ==
    \A id \in 1 .. Len(invoices) :
        ~(invoices[id].status = "VOIDED" /\ hasReturns(id))

\* the units of an item in the cart
InCart(b, id) == IF id \in DOMAIN b.cart THEN b.cart[id] ELSE 0

\* a call of addToCart that set an error instead of adding
Rejected(id) ==
    /\ addToCart(id)
    /\ billing'.error # NoError
    /\ billing'.cart = billing.cart

\* C29: addToCart is rejected only when no unit of the item is available,
\* and every call of addToCart and removeFromCart leaves the available
\* quantity and the cart quantity non-negative with their sum unchanged,
\* the quantity n the page fetched.
C29_CartWithinStock ==
    [][\A id \in DOMAIN billing.items :
          /\ Rejected(id) => billing.items[id] = 0
          /\ (addToCart(id) \/ (id \in DOMAIN billing.cart /\ removeFromCart(id))) =>
                /\ billing'.items[id] + InCart(billing', id)
                       = billing.items[id] + InCart(billing, id)
                /\ billing'.items[id] >= 0
                /\ InCart(billing', id) >= 0]_vars

\* the ledger half of C29 alone
C29_CartConserves ==
    [][\A id \in DOMAIN billing.items :
          (addToCart(id) \/ (id \in DOMAIN billing.cart /\ removeFromCart(id))) =>
                /\ billing'.items[id] + InCart(billing', id)
                       = billing.items[id] + InCart(billing, id)
                /\ billing'.items[id] >= 0
                /\ InCart(billing', id) >= 0]_vars

\* an item taken into the cart twice and given back once
C29_ConservesWitness ==
    \E id \in DOMAIN billing.items :
        /\ InCart(billing, id) = 1
        /\ billing.items[id] = 2

RECURSIVE SumOfNumbers(_)
SumOfNumbers(numbers) ==
    IF numbers = << >> THEN 0
    ELSE Head(numbers) + SumOfNumbers(Tail(numbers))

\* C30: in every spending-tiers report the tier counts sum to
\* summary.totalCustomers, the tier totals sum to summary.totalSpent, and
\* the tier percentages sum to 100 when the report has a customer.
C30_TiersPartitionCustomers ==
    Reported("customerReport", "spending-tiers") =>
        LET report == resp.body.result
            tiers == report.spendingTiers
        IN  /\ SumOfNumbers([t \in 1 .. Len(tiers) |-> tiers[t].count])
                   = report.summary.totalCustomers
            /\ SumOfNumbers([t \in 1 .. Len(tiers) |-> tiers[t].totalSpent])
                   = report.summary.totalSpent
            /\ report.summary.totalCustomers >= 1 =>
                   SumOfNumbers([t \in 1 .. Len(tiers) |->
                                    tiers[t].percentage.num])
                       = 100 * report.summary.totalCustomers

\* a spending-tiers report whose one customer is in a tier
C30_InTierWitness ==
    /\ Reported("customerReport", "spending-tiers")
    /\ resp.body.result.summary.totalCustomers = 1
    /\ resp.body.result.spendingTiers[1].count = 1

====
